---- MODULE Spec2Model ----
(***************************************************************************)
(* A model of llreve's concrete interpreter                                *)
(* (reve/dynamic/interpreter/lib/Interpreter.cpp): the typed values, the   *)
(* heap, the block / call interpreter with its step budget, and the CBOR   *)
(* codec of the recorded call tree.                                        *)
(*                                                                         *)
(* The recursion interpretFunction -> interpretBlock -> interpretFunction  *)
(* is unfolded into an explicit stack of frames; one action is one step of *)
(* the code between two points where control changes hands.                *)
(***************************************************************************)
EXTENDS Integers, Sequences, FiniteSets, TLC

VARIABLES
    BoundedFlag,  \* the process-wide flag of Interpreter.cpp:42
    prog,         \* the module being interpreted (an index of Programs)
    budget,       \* maxSteps of the top-level interpretFunction call
    stack,        \* the active interpretFunction frames, innermost last
    ret,          \* <<c>> for the FastCall c a frame has just returned, or <<>>
    pc,           \* "init", "run", "done" (the top-level call returned),
                  \* "crashed" (stack exhausted, exception), "aborted"
    visits        \* ghost: the block visits performed so far in the call tree

vars == <<BoundedFlag, prog, budget, stack, ret, pc, visits>>

(***************************************************************************)
(* Bounds of the model.                                                    *)
(***************************************************************************)
\* budgets 0 .. MaxBudget are tried for the top-level call
MaxBudget == 4
\* the frames the machine stack holds; a deeper call overflows it.  It is
\* more than MaxBudget + 1, so a recursion reaches it only with its budget
\* run out
MaxDepth == 8

(***************************************************************************)
(* uint32_t.  A value x of 0 .. 2^32 - 1 is held as the 32-bit two's       *)
(* complement pattern with the same bits, so 2^32 - 1 is -1; subtraction   *)
(* and addition on patterns are those of the integers (no count of the     *)
(* model comes near 2^31), and the order is the unsigned one.              *)
(***************************************************************************)
U32Sub(a, b) == a - b

U32Add(a, b) == a + b

U32Gt(a, b) == IF (a < 0) = (b < 0) THEN a > b ELSE a < 0

(***************************************************************************)
(* Finite maps (std::map).                                                 *)
(***************************************************************************)
EmptyMap == [k \in {} |-> k]

\* operator[] assignment: m[k] = v
Put(m, k, v) == [x \in DOMAIN m \cup {k} |-> IF x = k THEN v ELSE m[x]]

\* map::insert: keeps the element already there
Insert(m, k, v) == IF k \in DOMAIN m THEN m ELSE Put(m, k, v)

(***************************************************************************)
(* llvm::APInt of a width that is a multiple of 8: its bytes, the most     *)
(* significant first.                                                      *)
(***************************************************************************)
RECURSIVE APInt(_, _)
\* the two's complement pattern of n in 8 * nbytes bits
APInt(nbytes, n) ==
    IF nbytes = 0 THEN <<>>
    ELSE Append(APInt(nbytes - 1, n \div 256), n % 256)

SignByte(bytes) == IF Len(bytes) > 0 /\ bytes[1] >= 128 THEN 255 ELSE 0

APtrunc8(bytes) == <<bytes[Len(bytes)]>>

APashr8(bytes) == <<SignByte(bytes)>> \o SubSeq(bytes, 1, Len(bytes) - 1)

APshl8(bytes) == SubSeq(bytes, 2, Len(bytes)) \o <<0>>

RECURSIVE APsextOrSelf(_, _)
APsextOrSelf(bytes, nbytes) ==
    IF Len(bytes) >= nbytes THEN bytes
    ELSE APsextOrSelf(<<SignByte(bytes)>> \o bytes, nbytes)

RECURSIVE APzextOrTrunc(_, _)
APzextOrTrunc(bytes, nbytes) ==
    IF Len(bytes) = nbytes THEN bytes
    ELSE IF Len(bytes) > nbytes THEN SubSeq(bytes, Len(bytes) - nbytes + 1, Len(bytes))
    ELSE APzextOrTrunc(<<0>> \o bytes, nbytes)

RECURSIVE BitOr(_, _, _)
\* the bitwise or of two numbers of k bits
BitOr(x, y, k) ==
    IF k = 0 THEN 0
    ELSE 2 * BitOr(x \div 2, y \div 2, k - 1)
         + (IF x % 2 = 1 \/ y % 2 = 1 THEN 1 ELSE 0)

APor(a, b) == [i \in 1..Len(a) |-> BitOr(a[i], b[i], 8)]

RECURSIVE APadd(_, _, _)
\* a + b + carry modulo 2^(8 * Len(a)), for Len(a) = Len(b)
APadd(a, b, carry) ==
    IF Len(a) = 0 THEN <<>>
    ELSE LET s == a[Len(a)] + b[Len(b)] + carry
         IN Append(APadd(SubSeq(a, 1, Len(a) - 1), SubSeq(b, 1, Len(b) - 1),
                         s \div 256),
                   s % 256)

RECURSIVE APsigned(_)
\* the signed value of a pattern
APsigned(bytes) ==
    IF Len(bytes) = 1 THEN (IF bytes[1] >= 128 THEN bytes[1] - 256 ELSE bytes[1])
    ELSE 256 * APsigned(SubSeq(bytes, 1, Len(bytes) - 1)) + bytes[Len(bytes)]

(***************************************************************************)
(* Integer (Integer.h): Bounded (an APInt) or Unbounded (an mpz_class).    *)
(***************************************************************************)
\* Integer(mpz_class)
IntegerMpz(n) == [type |-> "Unbounded", unbounded |-> n]

\* Integer(llvm::APInt)
IntegerAP(bytes) == [type |-> "Bounded", bounded |-> bytes]

\* makeBoundedInt(numBits, i)
makeBoundedInt(numBits, i) == APInt(numBits \div 8, i)

\* Integer::asPointer: in bounded mode an address is 64 bits wide
asPointer(i) ==
    IF i.type = "Bounded" THEN IntegerAP(APzextOrTrunc(i.bounded, 8))
    ELSE IF BoundedFlag THEN IntegerAP(makeBoundedInt(64, i.unbounded))
    ELSE i

\* operator+ of two Integers of one mode
IntegerAdd(a, b) ==
    CASE a.type = "Unbounded" /\ b.type = "Unbounded" ->
            IntegerMpz(a.unbounded + b.unbounded)
      [] a.type = "Bounded" /\ b.type = "Bounded" ->
            IntegerAP(APadd(a.bounded, b.bounded, 0))

\* operator- of two Integers of one mode: a + (~b) + 1
IntegerSub(a, b) ==
    CASE a.type = "Unbounded" /\ b.type = "Unbounded" ->
            IntegerMpz(a.unbounded - b.unbounded)
      [] a.type = "Bounded" /\ b.type = "Bounded" ->
            IntegerAP(APadd(a.bounded,
                            [i \in 1..Len(b.bounded) |-> 255 - b.bounded[i]], 1))

\* operator== of two Integers
IntegerEq(a, b) == a = b

\* Integer::slt
IntegerSlt(a, b) ==
    CASE a.type = "Unbounded" /\ b.type = "Unbounded" -> a.unbounded < b.unbounded
      [] a.type = "Bounded" /\ b.type = "Bounded" ->
            APsigned(a.bounded) < APsigned(b.bounded)

RECURSIVE APult(_, _)
\* llvm::APInt::ult: the unsigned order of two patterns of one width
APult(a, b) ==
    IF a = <<>> THEN FALSE
    ELSE IF a[1] # b[1] THEN a[1] < b[1]
    ELSE APult(Tail(a), Tail(b))

\* Integer::ult
IntegerUlt(a, b) ==
    CASE a.type = "Unbounded" /\ b.type = "Unbounded" -> a.unbounded < b.unbounded
      [] a.type = "Bounded" /\ b.type = "Bounded" -> APult(a.bounded, b.bounded)

\* Integer::zext: an unbounded integer has no width to extend
IntegerZext(i, bits) ==
    IF i.type = "Bounded" THEN IntegerAP(APzextOrTrunc(i.bounded, bits \div 8)) ELSE i

\* Integer::sext
IntegerSext(i, bits) ==
    IF i.type = "Bounded" THEN IntegerAP(APsextOrSelf(i.bounded, bits \div 8)) ELSE i

\* Integer::zextOrTrunc
IntegerZextOrTrunc(i, bits) ==
    IF i.type = "Bounded" THEN IntegerAP(APzextOrTrunc(i.bounded, bits \div 8)) ELSE i

(***************************************************************************)
(* VarVal: VarInt, VarBool, or a null shared_ptr.                          *)
(***************************************************************************)
VarInt(i) == [type |-> "Int", val |-> i]

VarBool(b) == [type |-> "Bool", val |-> b]

NullVal == [type |-> "Null"]

\* const llvm::Value *ReturnName = nullptr: the key of the return value
ReturnName == "nullptr"

\* State<T>: the variables and the heap, both held by value
State(variables, heap) == [variables |-> variables, heap |-> heap]

(***************************************************************************)
(* The IR the interpreter walks (llvm::Value and its subclasses).  An      *)
(* operand is an instruction or argument (named by its id), a ConstantInt  *)
(* (its width and its sign-extended value; 0 or 1 for an i1) or the null   *)
(* pointer constant.                                                       *)
(***************************************************************************)
Val(id) == [k |-> "value", id |-> id]

ConstInt(bits, n) == [k |-> "ConstantInt", bits |-> bits, n |-> n]

ConstNull == [k |-> "ConstantPointerNull"]

\* no basic block: the nullptr of prevBlock and of nextBlock
NoBlock == "nullptr"

(***************************************************************************)
(* resolveValue (Interpreter.cpp:379-397).  variables.at(val) is the map   *)
(* lookup; getSExtValue() and getValue() of the constant are n and the     *)
(* width-bit pattern of n.                                                 *)
(***************************************************************************)
resolveValue(val, state) ==
    CASE val.k = "value" -> state.variables[val.id]
      [] val.k = "ConstantInt" ->
            IF val.bits = 1 THEN VarBool(val.n = 1)
            ELSE IF ~BoundedFlag THEN VarInt(IntegerMpz(val.n))
            ELSE VarInt(IntegerAP(makeBoundedInt(val.bits, val.n)))
      [] val.k = "ConstantPointerNull" ->
            VarInt(IntegerAP(makeBoundedInt(64, 0)))

(***************************************************************************)
(* The heap accesses of interpretInstruction.                              *)
(***************************************************************************)
RECURSIVE loadBoundedLoop(_, _, _, _, _)
\* Interpreter.cpp:257-266: the loop over i, from i to bytes - 1
loadBoundedLoop(heap, val, ptr, i, bytes) ==
    IF i >= bytes THEN [heap |-> heap, val |-> val]
    ELSE LET key == IntegerAdd(asPointer(ptr), asPointer(IntegerMpz(i)))
             h   == Insert(heap, key, IntegerAP(makeBoundedInt(8, 0)))
             v   == APor(APshl8(val), APsextOrSelf(h[key].bounded, bytes))
         IN loadBoundedLoop(h, v, ptr, i + 1, bytes)

\* Interpreter.cpp:254-267: the bounded load of a bits-wide value at ptr
loadBounded(heap, ptr, bits) ==
    LET r == loadBoundedLoop(heap, makeBoundedInt(bits, 0), ptr, 0, bits \div 8)
    IN [heap |-> r.heap, val |-> IntegerAP(r.val)]

\* a load that reads zero for an absent cell without inserting it
loadUnboundedNoInsert(heap, ptr, bits) ==
    LET key == asPointer(ptr)
    IN [heap |-> heap,
        val |-> IF key \in DOMAIN heap THEN heap[key] ELSE IntegerMpz(0)]

\* Interpreter.cpp:269-272: the unbounded load at ptr
loadUnbounded(heap, ptr, bits) ==
    LET key == asPointer(ptr)
        h   == Insert(heap, key, IntegerMpz(0))
    IN [heap |-> h, val |-> h[key]]

RECURSIVE storeBoundedLoop(_, _, _, _)
\* Interpreter.cpp:292-299: the loop, counting bytes down to 0 inclusive
storeBoundedLoop(heap, addr, bval, bytes) ==
    IF ~(bytes >= 0) THEN heap
    ELSE LET el == APtrunc8(bval)
             h  == Put(heap, IntegerAdd(addr, IntegerAP(APInt(8, bytes))),
                       IntegerAP(el))
         IN storeBoundedLoop(h, addr, APashr8(bval), bytes - 1)

\* Interpreter.cpp:284-300: the bounded store of the bits-wide val at addr
storeBounded(heap, addr, val, bits) ==
    IF bits \div 8 = 1 THEN Put(heap, addr, val)
    ELSE storeBoundedLoop(heap, addr, val.bounded, bits \div 8)

\* a store that inserts: a cell already there keeps its value
storeUnboundedInsert(heap, addr, val, bits) == Insert(heap, addr, val)

\* Interpreter.cpp:302: the unbounded store
storeUnbounded(heap, addr, val, bits) == Put(heap, addr, val)

(***************************************************************************)
(* interpretICmpInst / interpretIntPredicate and interpretBinOp /          *)
(* interpretIntBinOp / interpretBoolBinOp (Interpreter.cpp:399-539).       *)
(***************************************************************************)
interpretIntPredicate(instr, i0, i1, state) ==
    LET predVal == CASE instr.pred = "ICMP_EQ"  -> IntegerEq(i0, i1)
                     [] instr.pred = "ICMP_NE"  -> ~IntegerEq(i0, i1)
                     [] instr.pred = "ICMP_SGE" -> ~IntegerSlt(i0, i1)
                     [] instr.pred = "ICMP_SGT" -> IntegerSlt(i1, i0)
                     [] instr.pred = "ICMP_SLE" -> ~IntegerSlt(i1, i0)
                     [] instr.pred = "ICMP_SLT" -> IntegerSlt(i0, i1)
                     [] instr.pred = "ICMP_UGE" -> ~IntegerUlt(i0, i1)
                     [] instr.pred = "ICMP_UGT" -> IntegerUlt(i1, i0)
                     [] instr.pred = "ICMP_ULE" -> ~IntegerUlt(i1, i0)
                     [] instr.pred = "ICMP_ULT" -> IntegerUlt(i0, i1)
                     [] OTHER -> FALSE
    IN State(Put(state.variables, instr.ref, VarBool(predVal)), state.heap)

interpretICmpInst(instr, state) ==
    interpretIntPredicate(instr, resolveValue(instr.a, state).val,
                          resolveValue(instr.b, state).val, state)

interpretBoolBinOp(instr, b0, b1, state) ==
    LET result == IF instr.opcode = "Or" THEN b0 \/ b1 ELSE FALSE
    IN State(Put(state.variables, instr.ref, VarBool(result)), state.heap)

interpretIntBinOp(instr, i0, i1, state) ==
    LET result == CASE instr.opcode = "Add" -> IntegerAdd(i0, i1)
                    [] instr.opcode = "Sub" -> IntegerSub(i0, i1)
    IN State(Put(state.variables, instr.ref, VarInt(result)), state.heap)

interpretBinOp(instr, state) ==
    LET op0 == resolveValue(instr.a, state)
        op1 == resolveValue(instr.b, state)
    IN IF instr.bits = 1
       THEN interpretBoolBinOp(instr, op0.val, op1.val, state)
       ELSE interpretIntBinOp(instr, op0.val, op1.val, state)

(***************************************************************************)
(* interpretInstruction (Interpreter.cpp:196-321), for the instructions    *)
(* other than calls.                                                       *)
(***************************************************************************)
interpretLoad(instr, state) ==
    LET ptr == resolveValue(instr.ptr, state)
        r   == IF BoundedFlag THEN loadBounded(state.heap, ptr.val, instr.bits)
               ELSE loadUnbounded(state.heap, ptr.val, instr.bits)
    IN State(Put(state.variables, instr.ref, VarInt(r.val)), r.heap)

interpretStore(instr, state) ==
    LET addr == resolveValue(instr.ptr, state).val
        val  == resolveValue(instr.value, state).val
    IN State(state.variables,
             IF BoundedFlag THEN storeBounded(state.heap, addr, val, instr.bits)
             ELSE storeUnbounded(state.heap, addr, val, instr.bits))

interpretSelect(instr, state) ==
    LET cond == resolveValue(instr.cond, state)
        var  == IF cond.val THEN resolveValue(instr.a, state)
                ELSE resolveValue(instr.b, state)
    IN State(Put(state.variables, instr.ref, var), state.heap)

\* Interpreter.cpp:201-245: a cast.  In the branch of inttoptr the variable
\* ptrToInt is the null result of the dyn_cast that failed before it, so the
\* key written is the null pointer; a cast of no listed kind does nothing
interpretCast(instr, state) ==
    IF instr.srcBits = 1 /\ instr.bits > 1
    THEN LET operand == state.variables[instr.a.id]
             n == IF operand.val THEN 1 ELSE 0
         IN State(Put(state.variables, instr.ref,
                      IF BoundedFlag
                      THEN VarInt(IntegerAP(makeBoundedInt(instr.bits, n)))
                      ELSE VarInt(IntegerMpz(n))),
                  state.heap)
    ELSE CASE instr.kind = "ZExt" ->
                State(Put(state.variables, instr.ref,
                          VarInt(IntegerZext(resolveValue(instr.a, state).val,
                                             instr.bits))),
                      state.heap)
           [] instr.kind = "SExt" ->
                State(Put(state.variables, instr.ref,
                          VarInt(IntegerSext(resolveValue(instr.a, state).val,
                                             instr.bits))),
                      state.heap)
           [] instr.kind = "PtrToInt" ->
                State(Put(state.variables, instr.ref,
                          VarInt(IntegerZextOrTrunc(resolveValue(instr.a, state).val,
                                                    instr.bits))),
                      state.heap)
           [] instr.kind = "IntToPtr" ->
                State(Put(state.variables, "nullptr",
                          VarInt(IntegerZextOrTrunc(resolveValue(instr.a, state).val,
                                                    64))),
                      state.heap)
           [] OTHER -> state

interpretInstruction(instr, state) ==
    CASE instr.op = "BinaryOperator" -> interpretBinOp(instr, state)
      [] instr.op = "ICmpInst"       -> interpretICmpInst(instr, state)
      [] instr.op = "CastInst"       -> interpretCast(instr, state)
      [] instr.op = "LoadInst"       -> interpretLoad(instr, state)
      [] instr.op = "StoreInst"      -> interpretStore(instr, state)
      [] instr.op = "SelectInst"     -> interpretSelect(instr, state)
      [] OTHER                       -> state

\* interpretPHI (Interpreter.cpp:323-328)
interpretPHI(instr, state, prevBlock) ==
    LET val == instr.incoming[prevBlock]
    IN State(Put(state.variables, instr.ref, resolveValue(val, state)), state.heap)

RECURSIVE switchCasesLast(_, _, _)
\* a scan in which a later matching case overrides an earlier one
switchCasesLast(instr, i, condVal) ==
    IF i > Len(instr.cases) THEN instr.default
    ELSE LET c == instr.cases[i]
             caseVal == IF BoundedFlag
                        THEN IntegerAP(makeBoundedInt(instr.bits, c.value))
                        ELSE IntegerMpz(c.value)
             rest == switchCasesLast(instr, i + 1, condVal)
         IN IF IntegerEq(caseVal, condVal) /\ rest = instr.default THEN c.succ
            ELSE rest

RECURSIVE switchCases(_, _, _)
\* Interpreter.cpp:360-371: the scan of the cases from the i-th on
switchCases(instr, i, condVal) ==
    IF i > Len(instr.cases) THEN instr.default
    ELSE LET c == instr.cases[i]
             caseVal == IF BoundedFlag
                        THEN IntegerAP(makeBoundedInt(instr.bits, c.value))
                        ELSE IntegerMpz(c.value)
         IN IF IntegerEq(caseVal, condVal) THEN c.succ
            ELSE switchCases(instr, i + 1, condVal)

\* interpretTerminator (Interpreter.cpp:330-377): the next block and the state
interpretTerminator(instr, state) ==
    CASE instr.op = "ReturnInst" ->
            [nextBlock |-> NoBlock,
             state |-> State(Put(state.variables, ReturnName,
                                 resolveValue(instr.value, state)), state.heap)]
      [] instr.op = "BranchInst" ->
            [nextBlock |-> IF instr.unconditional THEN instr.succ[1]
                           ELSE IF resolveValue(instr.cond, state).val
                                THEN instr.succ[1] ELSE instr.succ[2],
             state |-> state]
      [] instr.op = "SwitchInst" ->
            [nextBlock |-> switchCases(instr, 1, resolveValue(instr.cond, state).val),
             state |-> state]
      [] OTHER -> [nextBlock |-> NoBlock, state |-> state]

(***************************************************************************)
(* The modules interpreted.  A function has a name, its formal arguments,  *)
(* an entry block and blocks of PHI nodes, instructions and a terminator;  *)
(* every call instruction records the function it is called in (parent)    *)
(* and the function it calls (callee).  A module also lists the inputs     *)
(* tried for its main function: for each formal its width and the values,  *)
(* and the initial heaps (sets of <<address, value>>).                     *)
(***************************************************************************)
BinOp(ref, opcode, bits, a, b) ==
    [op |-> "BinaryOperator", ref |-> ref, opcode |-> opcode, bits |-> bits,
     a |-> a, b |-> b]

ICmp(ref, pred, a, b) == [op |-> "ICmpInst", ref |-> ref, pred |-> pred, a |-> a, b |-> b]

Load(ref, bits, ptr) == [op |-> "LoadInst", ref |-> ref, bits |-> bits, ptr |-> ptr]

Store(bits, value, ptr) == [op |-> "StoreInst", bits |-> bits, value |-> value, ptr |-> ptr]

Call(ref, parent, callee, args) ==
    [op |-> "CallInst", ref |-> ref, parent |-> parent, callee |-> callee, args |-> args]

\* a cast of kind from srcBits to bits wide (a pointer is 64 wide)
Cast(ref, kind, srcBits, bits, a) ==
    [op |-> "CastInst", ref |-> ref, kind |-> kind, srcBits |-> srcBits,
     bits |-> bits, a |-> a]

\* an instruction interpretInstruction has no branch for
Alloca(ref) == [op |-> "AllocaInst", ref |-> ref]

\* a terminator interpretTerminator has no branch for
Unreachable == [op |-> "UnreachableInst"]

Phi(ref, incoming) == [op |-> "PHINode", ref |-> ref, incoming |-> incoming]

Ret(value) == [op |-> "ReturnInst", value |-> value]

Br(succ) == [op |-> "BranchInst", unconditional |-> TRUE, succ |-> <<succ>>]

CondBr(cond, t, f) ==
    [op |-> "BranchInst", unconditional |-> FALSE, cond |-> cond, succ |-> <<t, f>>]

Switch(bits, cond, cases, default) ==
    [op |-> "SwitchInst", bits |-> bits, cond |-> cond, cases |-> cases,
     default |-> default]

Case(value, succ) == [value |-> value, succ |-> succ]

Block(phis, insts, term) == [phis |-> phis, insts |-> insts, term |-> term]

Function(name, args, entry, blocks) ==
    [name |-> name, args |-> args, entry |-> entry, blocks |-> blocks]

Param(ref, bits, values) == [ref |-> ref, bits |-> bits, values |-> values]

\* three blocks in a row
PStraight ==
    [main |-> "f", params |-> <<>>, heaps |-> {{}},
     funs |-> [n \in {"f"} |-> Function("f", <<>>, "b0",
        [b \in {"b0", "b1", "b2"} |->
            CASE b = "b0" -> Block(<<>>, <<>>, Br("b1"))
              [] b = "b1" -> Block(<<>>, <<>>, Br("b2"))
              [] b = "b2" -> Block(<<>>, <<>>, Ret(ConstInt(32, 0)))])]]

\* a loop that never ends
PLoop ==
    [main |-> "f", params |-> <<>>, heaps |-> {{}},
     funs |-> [n \in {"f"} |-> Function("f", <<>>, "entry",
        [b \in {"entry", "loop"} |->
            CASE b = "entry" -> Block(<<>>, <<>>, Br("loop"))
              [] b = "loop"  -> Block(<<>>, <<>>, Br("loop"))])]]

\* for (i = n; i != 0; i--) ; return i
PCount ==
    [main |-> "f", params |-> <<Param("n", 32, {0, 1})>>, heaps |-> {{}},
     funs |-> [n \in {"f"} |-> Function("f", <<"n">>, "entry",
        [b \in {"entry", "head", "body", "exit"} |->
            CASE b = "entry" -> Block(<<>>, <<>>, Br("head"))
              [] b = "head"  ->
                    Block(<<Phi("i", [q \in {"entry", "body"} |->
                                        IF q = "entry" THEN Val("n") ELSE Val("i2")])>>,
                          <<ICmp("c", "ICMP_EQ", Val("i"), ConstInt(32, 0))>>,
                          CondBr(Val("c"), "exit", "body"))
              [] b = "body"  ->
                    Block(<<>>, <<BinOp("i2", "Sub", 32, Val("i"), ConstInt(32, 1))>>,
                          Br("head"))
              [] b = "exit"  -> Block(<<>>, <<>>, Ret(Val("i")))])]]

\* f(n, p) = n == 0 ? 0 : (*p = n - 1, g(n - 1, p) + 1), with g(x, q) = x
PRec ==
    [main |-> "f", params |-> <<Param("n", 32, {0, 1, 2}), Param("p", 64, {16})>>,
     heaps |-> {{}},
     funs |-> [n \in {"f", "g"} |->
        IF n = "f"
        THEN Function("f", <<"n", "p">>, "entry",
            [b \in {"entry", "base", "rec"} |->
                CASE b = "entry" ->
                        Block(<<>>, <<ICmp("c", "ICMP_EQ", Val("n"), ConstInt(32, 0))>>,
                              CondBr(Val("c"), "base", "rec"))
                  [] b = "base" -> Block(<<>>, <<>>, Ret(ConstInt(32, 0)))
                  [] b = "rec" ->
                        Block(<<>>,
                              <<BinOp("m", "Sub", 32, Val("n"), ConstInt(32, 1)),
                                Store(32, Val("m"), Val("p")),
                                Call("r", "f", "g", <<Val("m"), Val("p")>>),
                                BinOp("s", "Add", 32, Val("r"), ConstInt(32, 1))>>,
                              Ret(Val("s")))])
        ELSE Function("g", <<"x", "q">>, "entry",
            [b \in {"entry"} |-> Block(<<>>, <<>>, Ret(Val("x")))])]]

\* f() = g(), with g() = 0: the entry block calls
PCallFirst ==
    [main |-> "f", params |-> <<>>, heaps |-> {{}},
     funs |-> [n \in {"f", "g"} |->
        IF n = "f"
        THEN Function("f", <<>>, "entry",
            [b \in {"entry"} |->
                Block(<<>>, <<Call("r", "f", "g", <<>>)>>, Ret(Val("r")))])
        ELSE Function("g", <<>>, "entry",
            [b \in {"entry"} |-> Block(<<>>, <<>>, Ret(ConstInt(32, 0)))])]]

\* f(p, q, v): *p = v; x = *p; y = *q; z = *q; return x, on bits-wide cells
PMem(bits) ==
    [main |-> "f",
     params |-> <<Param("p", 64, {16, 32}), Param("q", 64, {17, 32}),
                  Param("v", bits, {0, 1, -1, 258, -128})>>,
     heaps |-> {{}, {<<32, 5>>}},
     funs |-> [n \in {"f"} |-> Function("f", <<"p", "q", "v">>, "entry",
        [b \in {"entry"} |->
            Block(<<>>,
                  <<Store(bits, Val("v"), Val("p")),
                    Load("x", bits, Val("p")),
                    Load("y", bits, Val("q")),
                    Load("z", bits, Val("q"))>>,
                  Ret(Val("x")))])]]

\* switch (s) { case 1: A; case 2: B; case 1: C; default: D }
PSwitch ==
    [main |-> "f", params |-> <<Param("s", 32, {0, 1, 2, 3})>>, heaps |-> {{}},
     funs |-> [n \in {"f"} |-> Function("f", <<"s">>, "entry",
        [b \in {"entry", "A", "B", "C", "D"} |->
            CASE b = "entry" ->
                    Block(<<>>, <<>>,
                          Switch(32, Val("s"),
                                 <<Case(1, "A"), Case(2, "B"), Case(1, "C")>>, "D"))
              [] b = "A" -> Block(<<>>, <<>>, Ret(ConstInt(32, 10)))
              [] b = "B" -> Block(<<>>, <<>>, Ret(ConstInt(32, 20)))
              [] b = "C" -> Block(<<>>, <<>>, Ret(ConstInt(32, 30)))
              [] b = "D" -> Block(<<>>, <<>>, Ret(ConstInt(32, 40)))])]]

\* f(n, p) = n == 0 ? (*p = 7, 0) : (f(n - 1, p), *p)
PHeap ==
    [main |-> "f", params |-> <<Param("n", 32, {0, 1, 2}), Param("p", 64, {16})>>,
     heaps |-> {{}},
     funs |-> [n \in {"f"} |-> Function("f", <<"n", "p">>, "entry",
        [b \in {"entry", "base", "rec"} |->
            CASE b = "entry" ->
                    Block(<<>>, <<ICmp("c", "ICMP_EQ", Val("n"), ConstInt(32, 0))>>,
                          CondBr(Val("c"), "base", "rec"))
              [] b = "base" ->
                    Block(<<>>, <<Store(32, ConstInt(32, 7), Val("p"))>>,
                          Ret(ConstInt(32, 0)))
              [] b = "rec" ->
                    Block(<<>>,
                          <<BinOp("m", "Sub", 32, Val("n"), ConstInt(32, 1)),
                            Call("r", "f", "f", <<Val("m"), Val("p")>>),
                            Load("x", 32, Val("p"))>>,
                          Ret(Val("x")))])]]

\* f(k, p, v): the k-th of a list of casts and of constructs outside the
\* supported set, most of them followed by a use of the result
PCast ==
    [main |-> "f",
     params |-> <<Param("k", 32, 0..9), Param("p", 64, {16}),
                  Param("v", 32, {1, -1, 258})>>,
     heaps |-> {{}},
     funs |-> [n \in {"f"} |-> Function("f", <<"k", "p", "v">>, "entry",
        [b \in {"entry", "zext", "sext", "ptrtoint", "inttoptr", "trunc",
                "bitcast", "bool", "and", "unreachable", "alloca"} |->
            CASE b = "entry" ->
                    Block(<<>>, <<ICmp("c", "ICMP_EQ", Val("v"), ConstInt(32, 1))>>,
                          Switch(32, Val("k"),
                                 <<Case(1, "zext"), Case(2, "sext"),
                                   Case(3, "ptrtoint"), Case(4, "inttoptr"),
                                   Case(5, "trunc"), Case(6, "alloca"),
                                   Case(7, "bool"), Case(8, "and"),
                                   Case(9, "unreachable")>>,
                                 "bitcast"))
              [] b = "zext" ->
                    Block(<<>>, <<Cast("q", "ZExt", 32, 64, Val("v")),
                                  BinOp("u", "Add", 64, Val("q"), Val("q"))>>,
                          Ret(Val("u")))
              [] b = "sext" ->
                    Block(<<>>, <<Cast("q", "SExt", 32, 64, Val("v")),
                                  BinOp("u", "Add", 64, Val("q"), Val("q"))>>,
                          Ret(Val("u")))
              [] b = "ptrtoint" ->
                    Block(<<>>, <<Cast("q", "PtrToInt", 64, 32, Val("p")),
                                  BinOp("u", "Add", 32, Val("q"), Val("v"))>>,
                          Ret(Val("u")))
              [] b = "inttoptr" ->
                    Block(<<>>, <<Cast("q", "IntToPtr", 32, 64, Val("v")),
                                  Load("x", 32, Val("q"))>>,
                          Ret(Val("x")))
              [] b = "trunc" ->
                    Block(<<>>, <<Cast("q", "Trunc", 32, 8, Val("v")),
                                  BinOp("u", "Add", 8, Val("q"), Val("q"))>>,
                          Ret(Val("u")))
              [] b = "bitcast" ->
                    Block(<<>>, <<Cast("q", "BitCast", 64, 64, Val("p"))>>,
                          Ret(Val("v")))
              [] b = "bool" ->
                    Block(<<>>, <<Cast("q", "ZExt", 1, 32, Val("c")),
                                  BinOp("u", "Add", 32, Val("q"), Val("v"))>>,
                          Ret(Val("u")))
              [] b = "and" ->
                    Block(<<>>, <<BinOp("d", "And", 1, Val("c"), Val("c"))>>,
                          Ret(Val("v")))
              [] b = "unreachable" -> Block(<<>>, <<>>, Unreachable)
              [] b = "alloca" ->
                    Block(<<>>, <<Alloca("a")>>, Ret(Val("v")))])]]

\* f(v): *null = v; x = *null; return x
PNull ==
    [main |-> "f",
     params |-> <<Param("v", 32, {1, -1})>>,
     heaps |-> {{}},
     funs |-> [n \in {"f"} |-> Function("f", <<"v">>, "entry",
        [b \in {"entry"} |->
            Block(<<>>, <<Store(32, Val("v"), ConstNull),
                          Load("x", 32, ConstNull)>>,
                  Ret(Val("x")))])]]

\* f(a, b): x = a; y = b; twice: (x, y) = (y, x); return x -- the swap as
\* two PHI nodes of the loop block that name each other
PSwap ==
    [main |-> "f", params |-> <<Param("a", 32, {1}), Param("b", 32, {2})>>,
     heaps |-> {{}},
     funs |-> [n \in {"f"} |-> Function("f", <<"a", "b">>, "entry",
        [b \in {"entry", "loop", "exit"} |->
            CASE b = "entry" -> Block(<<>>, <<>>, Br("loop"))
              [] b = "loop"  ->
                    Block(<<Phi("x", [q \in {"entry", "loop"} |->
                                        IF q = "entry" THEN Val("a") ELSE Val("y")]),
                            Phi("y", [q \in {"entry", "loop"} |->
                                        IF q = "entry" THEN Val("b") ELSE Val("x")]),
                            Phi("i", [q \in {"entry", "loop"} |->
                                        IF q = "entry" THEN ConstInt(32, 0)
                                        ELSE Val("i1")])>>,
                          <<BinOp("i1", "Add", 32, Val("i"), ConstInt(32, 1)),
                            ICmp("c", "ICMP_EQ", Val("i1"), ConstInt(32, 2))>>,
                          CondBr(Val("c"), "exit", "loop"))
              [] b = "exit"  -> Block(<<>>, <<>>, Ret(Val("x")))])]]

Programs ==
    <<PStraight, PLoop, PCount, PRec, PCallFirst, PMem(8), PMem(16), PMem(32),
      PMem(64), PSwitch, PHeap, PCast, PNull, PSwap>>

\* the function named name of the module interpreted
Fun(name) == Programs[prog].funs[name]

\* llvm::Instruction::getFunction(): the function the instruction is in
getFunction(call) == Fun(call.parent)

(***************************************************************************)
(* The records of the trace (Interpreter.h) and of a block's result.       *)
(***************************************************************************)
BlockStep(blockName, state, calls) ==
    [blockName |-> blockName, state |-> state, calls |-> calls]

FastCall(functionName, entryState, returnState, steps, earlyExit, blocksVisited) ==
    [functionName |-> functionName, entryState |-> entryState,
     returnState |-> returnState, steps |-> steps, earlyExit |-> earlyExit,
     blocksVisited |-> blocksVisited]

BlockUpdate(step, nextBlock, calls, earlyExit, blocksVisited) ==
    [step |-> step, nextBlock |-> nextBlock, calls |-> calls,
     earlyExit |-> earlyExit, blocksVisited |-> blocksVisited]

(***************************************************************************)
(* CBOR items (libcbor): a definite string, a boolean, an unsigned 32-bit  *)
(* integer, a definite map (its pairs in the order they were added) and a  *)
(* definite array.  The text of a name is the name; the text of a number   *)
(* is the sequence of its characters.                                      *)
(***************************************************************************)
cbor_build_string(str) == [t |-> "string", s |-> str]

cbor_build_bool(b) == [t |-> "bool", b |-> b]

cbor_build_uint32(n) == [t |-> "uint32", n |-> n]

cbor_pair(key, value) == [key |-> key, value |-> value]

cbor_map(pairs) == [t |-> "map", pairs |-> pairs]

cbor_array(items) == [t |-> "array", items |-> items]

cbor_isa_string(item) == item.t = "string"

cbor_is_bool(item) == item.t = "bool"

\* the value of a boolean item
cbor_ctrl_is_bool(item) == item.b

cbor_get_uint32(item) == item.n

Digits == <<"0", "1", "2", "3", "4", "5", "6", "7", "8", "9">>

RECURSIVE natStr(_)
\* the decimal digits of n >= 0
natStr(n) ==
    IF n < 10 THEN <<Digits[n + 1]>>
    ELSE Append(natStr(n \div 10), Digits[(n % 10) + 1])

\* mpz_class::get_str(): the decimal text of n
mpzStr(n) == IF n < 0 THEN <<"-">> \o natStr(-n) ELSE natStr(n)

RECURSIVE strNat(_)
\* the number a sequence of decimal digits reads as
strNat(str) ==
    IF str = <<>> THEN 0
    ELSE 10 * strNat(SubSeq(str, 1, Len(str) - 1))
         + (CHOOSE d \in 0..9 : Digits[d + 1] = str[Len(str)])

\* mpz_class(str, 10): the number a decimal text reads as
mpz_class(str) == IF str[1] = "-" THEN -strNat(Tail(str)) ELSE strNat(str)

\* Integer::get_str: the decimal text of the number, signed in bounded mode
get_str(i) ==
    IF i.type = "Bounded" THEN mpzStr(APsigned(i.bounded)) ELSE mpzStr(i.unbounded)

(***************************************************************************)
(* The encoder: VarInt::toCBOR, VarBool::toCBOR (Interpreter.cpp:88-92),   *)
(* stateToCBOR (677-702), BlockStep::toCBOR (634-655) and FastCall::toCBOR *)
(* (568-607).                                                              *)
(***************************************************************************)
\* a value is known by its name: llvm::Value::getName()
getName(val) == val

\* the name a variable is encoded under (Interpreter.cpp:681)
valueName(val) == IF val = ReturnName THEN "return" ELSE getName(val)

VarValToCBOR(v) ==
    CASE v.type = "Int"  -> cbor_build_string(get_str(v.val))
      [] v.type = "Bool" -> cbor_build_bool(v.val)

RECURSIVE variablesToCBOR(_, _)
\* Interpreter.cpp:680-686: a pair for each of the variables keys
variablesToCBOR(variables, keys) ==
    IF keys = {} THEN <<>>
    ELSE LET k == CHOOSE k \in keys : TRUE
         IN <<cbor_pair(cbor_build_string(valueName(k)), VarValToCBOR(variables[k]))>>
            \o variablesToCBOR(variables, keys \ {k})

RECURSIVE heapToCBOR(_, _)
\* Interpreter.cpp:687-693: a pair for each of the heap cells keys
heapToCBOR(heap, keys) ==
    IF keys = {} THEN <<>>
    ELSE LET k == CHOOSE k \in keys : TRUE
         IN <<cbor_pair(cbor_build_string(get_str(k)),
                        cbor_build_string(get_str(heap[k])))>>
            \o heapToCBOR(heap, keys \ {k})

stateToCBOR(state) ==
    cbor_map(<<cbor_pair(cbor_build_string("variables"),
                         cbor_map(variablesToCBOR(state.variables,
                                                  DOMAIN state.variables))),
               cbor_pair(cbor_build_string("heap"),
                         cbor_map(heapToCBOR(state.heap, DOMAIN state.heap)))>>)

RECURSIVE toCBOR(_)
\* FastCall::toCBOR, with BlockStep::toCBOR for each of its steps
toCBOR(call) ==
    LET BlockStepToCBOR(step) ==
            cbor_map(<<cbor_pair(cbor_build_string("block_name"),
                                 cbor_build_string(step.blockName)),
                       cbor_pair(cbor_build_string("state"), stateToCBOR(step.state)),
                       cbor_pair(cbor_build_string("calls"),
                                 cbor_array([i \in 1..Len(step.calls) |->
                                                toCBOR(step.calls[i])]))>>)
    IN cbor_map(<<cbor_pair(cbor_build_string("function_name"),
                            cbor_build_string(call.functionName)),
                  cbor_pair(cbor_build_string("entry_state"),
                            stateToCBOR(call.entryState)),
                  cbor_pair(cbor_build_string("return_state"),
                            stateToCBOR(call.returnState)),
                  cbor_pair(cbor_build_string("steps"),
                            cbor_array([i \in 1..Len(call.steps) |->
                                           BlockStepToCBOR(call.steps[i])])),
                  cbor_pair(cbor_build_string("early_exit"),
                            cbor_build_bool(call.earlyExit)),
                  cbor_pair(cbor_build_string("blocks_visited"),
                            cbor_build_uint32(call.blocksVisited))>>)

(***************************************************************************)
(* The decoder: cborToMap and cborToKeyMap (Interpreter.cpp:52-77),        *)
(* cborToVarVal (94-103), cborToVarIntVal, cborToString and cborToState    *)
(* (704-735), cborToBlockStep (609-618) and cborToCall (552-566).          *)
(***************************************************************************)
cborToString(item) == item.s

\* cborToMap: the pairs' keys and values, decoded, are inserted in order
\* with map.insert, so the first pair of a key is kept
cborToMap(keys, vals) ==
    LET first(k) == CHOOSE i \in 1..Len(keys) :
                        /\ keys[i] = k
                        /\ \A j \in 1..(i - 1) : keys[j] # k
    IN [k \in {keys[i] : i \in 1..Len(keys)} |-> vals[first(k)]]

cborToKeyMap(item) ==
    cborToMap([i \in 1..Len(item.pairs) |-> cborToString(item.pairs[i].key)],
              [i \in 1..Len(item.pairs) |-> item.pairs[i].value])

cborToVarVal(item) ==
    IF cbor_is_bool(item) THEN VarBool(cbor_ctrl_is_bool(item))
    ELSE IF cbor_isa_string(item) THEN VarInt(IntegerMpz(mpz_class(cborToString(item))))
    ELSE NullVal

cborToVarIntVal(item) == IntegerMpz(mpz_class(cborToString(item)))

cborToState(item) ==
    LET cborVariables == item.pairs[1].value
        cborHeap == item.pairs[2].value
        p == cborVariables.pairs
        q == cborHeap.pairs
    IN State(cborToMap([i \in 1..Len(p) |-> cborToString(p[i].key)],
                       [i \in 1..Len(p) |-> cborToVarVal(p[i].value)]),
             cborToMap([i \in 1..Len(q) |-> cborToVarIntVal(q[i].key)],
                       [i \in 1..Len(q) |-> cborToVarIntVal(q[i].value)]))

RECURSIVE cborToCall(_)
\* cborToCall, with cborToBlockStep for each item of "steps"
cborToCall(item) ==
    LET cborToBlockStep(it) ==
            LET vals == cborToKeyMap(it)
            IN BlockStep(cborToString(vals["block_name"]),
                         cborToState(vals["state"]),
                         [i \in 1..Len(vals["calls"].items) |->
                             cborToCall(vals["calls"].items[i])])
        vals == cborToKeyMap(item)
    IN FastCall(cborToString(vals["function_name"]),
                cborToState(vals["entry_state"]),
                cborToState(vals["return_state"]),
                [i \in 1..Len(vals["steps"].items) |->
                    cborToBlockStep(vals["steps"].items[i])],
                cbor_ctrl_is_bool(vals["early_exit"]),
                cbor_get_uint32(vals["blocks_visited"]))

\* cborToBlockStep (Interpreter.cpp:609-618)
cborToBlockStep(item) ==
    LET vals == cborToKeyMap(item)
    IN BlockStep(cborToString(vals["block_name"]),
                 cborToState(vals["state"]),
                 [i \in 1..Len(vals["calls"].items) |->
                     cborToCall(vals["calls"].items[i])])

\* the null shared_ptr<Step<string>>
NullStep == [step |-> "Null"]

\* cborToStep (Interpreter.cpp:541-550): a map of 6 pairs is a call, one of
\* 3 a block step, any other yields the null pointer
cborToStep(item) ==
    IF Len(item.pairs) = 6 THEN cborToCall(item)
    ELSE IF Len(item.pairs) = 3 THEN cborToBlockStep(item)
    ELSE NullStep

(***************************************************************************)
(* A frame: the locals of one interpretFunction call (Interpreter.cpp:     *)
(* 118-123) and, while it is inside interpretBlock, that call's locals     *)
(* (the b... fields, Interpreter.cpp:146-160).  at is where the frame      *)
(* stands: "fun" before interpretBlock is called, "block" before the       *)
(* ip-th instruction after the PHI nodes, "call" while a callee runs.      *)
(* postPhi is a ghost: the state right after the PHI nodes of each block   *)
(* the frame has entered.                                                  *)
(***************************************************************************)
NewFrame(fun, entry, maxSteps) ==
    [fun |-> fun, maxSteps |-> maxSteps, blocksVisited |-> 0,
     prevBlock |-> NoBlock, currentBlock |-> Fun(fun).entry,
     entry |-> entry, state |-> entry, steps |-> <<>>,
     at |-> "fun", bMaxSteps |-> 0, bBlocksVisited |-> 0, bStep |-> entry,
     bCalls |-> <<>>, ip |-> 0, postPhi |-> <<>>]

Top == stack[Len(stack)]

CurrentBlock(fr) == Fun(fr.fun).blocks[fr.currentBlock]

\* the instruction a frame inside a block stands before
CurrentInstr(fr) == CurrentBlock(fr).insts[fr.ip]

AtInstr(fr) == fr.at = "block" /\ fr.ip <= Len(CurrentBlock(fr).insts)

AtCall(fr) == AtInstr(fr) /\ CurrentInstr(fr).op = "CallInst"

AtTerminator(fr) == fr.at = "block" /\ fr.ip > Len(CurrentBlock(fr).insts)

\* the budget interpretFunction hands to interpretBlock (Interpreter.cpp:126)
blockBudget(maxSteps, blocksVisited) == U32Sub(maxSteps, blocksVisited)

\* the budget interpretBlock hands to a callee (Interpreter.cpp:173)
calleeBudget(maxSteps, blocksVisited) == U32Sub(maxSteps, blocksVisited)

RECURSIVE resolvePHIs(_, _, _, _)
\* Interpreter.cpp:152-157: the PHI nodes from the i-th on, in order
resolvePHIs(phis, i, state, prevBlock) ==
    IF i > Len(phis) THEN state
    ELSE resolvePHIs(phis, i + 1, interpretPHI(phis[i], state, prevBlock), prevBlock)

\* FastState step(state) (Interpreter.cpp:158): a copy of the state
takeStep(state) == state

\* a step that aliases the live state instead of the copy taken
recordedStepLive(fr) == fr.state

\* the step a block hands back: std::move(step) (Interpreter.cpp:177, 191)
recordedStep(fr) == fr.bStep

\* Interpreter.cpp:165-171: the formals of fun bound to the actual arguments
callArgs(fun, call, state) ==
    [a \in {fun.args[i] : i \in 1..Len(call.args)} |->
        resolveValue(call.args[CHOOSE i \in 1..Len(call.args) : fun.args[i] = a],
                     state)]

\* a callee that starts on an empty heap
calleeHeapFresh(state) == EmptyMap

\* the heap a callee starts on: FastState(args, state.heap)
\* (Interpreter.cpp:172), a copy of the caller's
calleeHeap(state) == state.heap

\* a truncated call after which the caller takes the callee's heap
stateAtExitFolded(fr, c) == State(fr.state.variables, c.returnState.heap)

\* the caller's state when its block ends early after a call: the return at
\* Interpreter.cpp:176-178 comes before the assignments of lines 180-181
stateAtExit(fr, c) == fr.state

\* a block that never ends early
blockExitsNever(blocksVisited, maxSteps, c) == FALSE

\* the test that ends a block after a call (Interpreter.cpp:175)
blockExits(blocksVisited, maxSteps, c) ==
    U32Gt(blocksVisited, maxSteps) \/ c.earlyExit

\* the test with >= for >
functionExitsAtBudget(blocksVisited, maxSteps, update) ==
    ~U32Gt(maxSteps, blocksVisited) \/ update.earlyExit

\* the test that ends a function after a block (Interpreter.cpp:133)
functionExits(blocksVisited, maxSteps, update) ==
    U32Gt(blocksVisited, maxSteps) \/ update.earlyExit

\* the record of a truncated call (Interpreter.cpp:134-136)
truncatedCall(fr, steps, blocksVisited) ==
    FastCall(fr.fun, fr.entry, fr.state, steps, TRUE, blocksVisited)

\* the record of a call that ran to its return (Interpreter.cpp:139-140)
completedCall(fr, steps, blocksVisited) ==
    FastCall(fr.fun, fr.entry, fr.state, steps, FALSE, blocksVisited)

(***************************************************************************)
(* interpretFunction after interpretBlock has returned update              *)
(* (Interpreter.cpp:127-140): the call returns a record, or the loop goes  *)
(* on with the next block.                                                 *)
(***************************************************************************)
functionStep(fr, update) ==
    LET blocksVisited == U32Add(fr.blocksVisited, update.blocksVisited)
        steps == Append(fr.steps,
                        BlockStep(fr.currentBlock, update.step, update.calls))
    IN IF functionExits(blocksVisited, fr.maxSteps, update)
       THEN [returned |-> TRUE, call |-> truncatedCall(fr, steps, blocksVisited)]
       ELSE IF update.nextBlock = NoBlock
       THEN [returned |-> TRUE, call |-> completedCall(fr, steps, blocksVisited)]
       ELSE [returned |-> FALSE,
             frame |-> [fr EXCEPT !.blocksVisited = blocksVisited,
                                  !.steps = steps,
                                  !.prevBlock = fr.currentBlock,
                                  !.currentBlock = update.nextBlock,
                                  !.at = "fun"]]

(***************************************************************************)
(* interpretBlock after a callee has returned c (Interpreter.cpp:174-182): *)
(* the block ends early, or folds the callee's result in and goes on.      *)
(***************************************************************************)
\* a caller that takes over every binding of the callee's return state
bindResultMerged(variables, ref, c) ==
    LET retVal == IF ReturnName \in DOMAIN c.returnState.variables
                  THEN c.returnState.variables[ReturnName] ELSE NullVal
        theirs == c.returnState.variables
    IN Put([x \in DOMAIN variables \cup DOMAIN theirs |->
               IF x \in DOMAIN theirs THEN theirs[x] ELSE variables[x]],
           ref, retVal)

\* state.variables[call] = c.returnState.variables[ReturnName]
\* (Interpreter.cpp:181); operator[] gives a null pointer for a missing key
bindResult(variables, ref, c) ==
    LET retVal == IF ReturnName \in DOMAIN c.returnState.variables
                  THEN c.returnState.variables[ReturnName] ELSE NullVal
    IN Put(variables, ref, retVal)

afterCall(fr, c) ==
    LET call == CurrentInstr(fr)
        blocksVisited == U32Add(fr.bBlocksVisited, c.blocksVisited)
    IN IF blockExits(blocksVisited, fr.bMaxSteps, c)
       THEN [exit |-> TRUE,
             update |-> BlockUpdate(recordedStep(fr), NoBlock, fr.bCalls, TRUE,
                                    blocksVisited)]
       ELSE [exit |-> FALSE,
             frame |-> [fr EXCEPT !.bBlocksVisited = blocksVisited,
                                  !.state = State(bindResult(fr.state.variables,
                                                             call.ref, c),
                                                  c.returnState.heap),
                                  !.bCalls = Append(@, [c EXCEPT
                                      !.returnState.variables =
                                          Insert(@, ReturnName, NullVal)]),
                                  !.ip = @ + 1,
                                  !.at = "block"]]

(***************************************************************************)
(* The ways an instruction ends the process.  resolveValue looks a value   *)
(* up with variables.at(val), which throws std::out_of_range for a value   *)
(* that is not bound, and nothing catches it.  logErrorData and logError   *)
(* (Helper.h) report a construct outside the supported set.                *)
(***************************************************************************)
\* the operands an instruction or terminator resolves
Uses(instr, state) ==
    CASE instr.op \in {"BinaryOperator", "ICmpInst"} -> {instr.a, instr.b}
      [] instr.op = "LoadInst"   -> {instr.ptr}
      [] instr.op = "StoreInst"  -> {instr.ptr, instr.value}
      [] instr.op = "SelectInst" ->
            IF instr.cond.k = "value" /\ instr.cond.id \notin DOMAIN state.variables
            THEN {instr.cond}
            ELSE {instr.cond,
                  IF resolveValue(instr.cond, state).val THEN instr.a ELSE instr.b}
      [] instr.op = "CastInst"   ->
            IF (instr.srcBits = 1 /\ instr.bits > 1)
               \/ instr.kind \in {"ZExt", "SExt", "PtrToInt", "IntToPtr"}
            THEN {instr.a} ELSE {}
      [] instr.op = "CallInst"   -> {instr.args[i] : i \in 1..Len(instr.args)}
      [] instr.op = "ReturnInst" -> {instr.value}
      [] instr.op = "BranchInst" -> IF instr.unconditional THEN {} ELSE {instr.cond}
      [] instr.op = "SwitchInst" -> {instr.cond}
      [] OTHER -> {}

\* the instruction resolves a value that is not bound
Unbound(instr, state) ==
    \E v \in Uses(instr, state) : v.k = "value" /\ v.id \notin DOMAIN state.variables

RECURSIVE phisUnbound(_, _, _, _)
\* a PHI node from the i-th on resolves a value that is not bound
phisUnbound(phis, i, state, prevBlock) ==
    IF i > Len(phis) THEN FALSE
    ELSE LET val == phis[i].incoming[prevBlock]
         IN \/ val.k = "value" /\ val.id \notin DOMAIN state.variables
            \/ phisUnbound(phis, i + 1, interpretPHI(phis[i], state, prevBlock),
                           prevBlock)

\* the next step of the frame throws std::out_of_range
Throws(fr) ==
    \/ fr.at = "fun" /\ phisUnbound(CurrentBlock(fr).phis, 1, fr.state, fr.prevBlock)
    \/ AtInstr(fr) /\ Unbound(CurrentInstr(fr), fr.state)
    \/ AtTerminator(fr) /\ Unbound(CurrentBlock(fr).term, fr.state)

\* the predicates of interpretIntPredicate (Interpreter.cpp:420-449)
Predicates ==
    {"ICMP_EQ", "ICMP_NE", "ICMP_SGE", "ICMP_SGT", "ICMP_SLE", "ICMP_SLT",
     "ICMP_UGE", "ICMP_UGT", "ICMP_ULE", "ICMP_ULT"}

\* the opcodes of interpretIntBinOp (Interpreter.cpp:495-533)
IntOpcodes ==
    {"Add", "Sub", "Mul", "SDiv", "UDiv", "SRem", "URem", "Shl", "LShr", "AShr",
     "And", "Or", "Xor"}

\* the instruction reaches a logErrorData or logError call
logsError(instr) ==
    CASE instr.op = "ICmpInst" -> instr.pred \notin Predicates
      [] instr.op = "BinaryOperator" ->
            IF instr.bits = 1 THEN instr.opcode # "Or"
            ELSE instr.opcode \notin IntOpcodes
      [] instr.op \in {"CastInst", "GetElementPtrInst", "LoadInst", "StoreInst",
                       "SelectInst", "CallInst", "ReturnInst", "BranchInst",
                       "SwitchInst"} -> FALSE
      [] OTHER -> TRUE

\* the next step of the frame reports an error
Logs(fr) ==
    \/ AtInstr(fr) /\ logsError(CurrentInstr(fr))
    \/ AtTerminator(fr) /\ logsError(CurrentBlock(fr).term)

(***************************************************************************)
(* The initial states: the mode is set and a module is loaded.  The call   *)
(* of interpretFunction on the module's main function then takes a budget  *)
(* and an entry state of the run's mode.                                   *)
(***************************************************************************)
\* the value n of an argument of the given width, in the run's mode
ArgVal(bits, n) ==
    IF bits = 1 THEN VarBool(n = 1)
    ELSE IF BoundedFlag THEN VarInt(IntegerAP(makeBoundedInt(bits, n)))
    ELSE VarInt(IntegerMpz(n))

\* the heap holding the cells <<address, value>> of cells, in the run's mode
EntryHeap(cells) ==
    [k \in {ArgVal(64, c[1]).val : c \in cells} |->
        LET c == CHOOSE c \in cells : ArgVal(64, c[1]).val = k
        IN IF BoundedFlag THEN IntegerAP(makeBoundedInt(8, c[2]))
           ELSE IntegerMpz(c[2])]

\* the choices of argument values: one value per formal
ArgChoices(params) ==
    {a \in [1..Len(params) -> UNION {params[i].values : i \in 1..Len(params)}] :
        \A i \in 1..Len(params) : a[i] \in params[i].values}

EntryVariables(params, a) ==
    [r \in {params[i].ref : i \in 1..Len(params)} |->
        LET i == CHOOSE i \in 1..Len(params) : params[i].ref = r
        IN ArgVal(params[i].bits, a[i])]

Init ==
    /\ BoundedFlag \in BOOLEAN
    /\ prog \in 1..Len(Programs)
    /\ budget = 0
    /\ stack = <<>>
    /\ ret = <<>>
    /\ pc = "init"
    /\ visits = 0

(***************************************************************************)
(* The steps.                                                              *)
(***************************************************************************)
SetTop(fr) == [stack EXCEPT ![Len(stack)] = fr]

Pop == SubSeq(stack, 1, Len(stack) - 1)

Running == pc = "run" /\ stack # <<>>

\* the top-level call interpretFunction(fun, entry, maxSteps)
\* (Interpreter.cpp:116-123)
Start ==
    /\ pc = "init"
    /\ \E b \in 0..MaxBudget, a \in ArgChoices(Programs[prog].params),
          h \in Programs[prog].heaps :
          /\ budget' = b
          /\ stack' = <<NewFrame(Programs[prog].main,
                                 State(EntryVariables(Programs[prog].params, a),
                                       EntryHeap(h)),
                                 b)>>
    /\ pc' = "run"
    /\ UNCHANGED <<BoundedFlag, prog, ret, visits>>

\* interpretBlock up to the snapshot (Interpreter.cpp:125-126, 147-160)
BlockEnter ==
    /\ Running /\ ret = <<>> /\ Top.at = "fun" /\ ~Throws(Top)
    /\ LET fr == Top
           st == resolvePHIs(CurrentBlock(fr).phis, 1, fr.state, fr.prevBlock)
       IN stack' = SetTop([fr EXCEPT
                              !.bMaxSteps = blockBudget(fr.maxSteps, fr.blocksVisited),
                              !.bBlocksVisited = 1,
                              !.state = st,
                              !.bStep = takeStep(st),
                              !.bCalls = <<>>,
                              !.ip = 1,
                              !.at = "block",
                              !.postPhi = Append(@, st)])
    /\ visits' = visits + 1
    /\ UNCHANGED <<BoundedFlag, prog, budget, ret, pc>>

\* an instruction that is no call (Interpreter.cpp:184)
Instruction ==
    /\ Running /\ ret = <<>> /\ AtInstr(Top) /\ ~AtCall(Top) /\ ~Throws(Top)
    /\ stack' = SetTop([Top EXCEPT
                           !.state = interpretInstruction(CurrentInstr(Top), Top.state),
                           !.ip = @ + 1])
    /\ UNCHANGED <<BoundedFlag, prog, budget, ret, pc, visits>>

\* a call instruction: the callee's frame is entered (Interpreter.cpp:163-173)
CallEnter ==
    /\ Running /\ ret = <<>> /\ AtCall(Top) /\ ~Throws(Top) /\ Len(stack) < MaxDepth
    /\ LET fr   == Top
           call == CurrentInstr(fr)
           fun  == getFunction(call)
           args == callArgs(fun, call, fr.state)
       IN stack' = Append(SetTop([fr EXCEPT !.at = "call"]),
                          NewFrame(fun.name, State(args, calleeHeap(fr.state)),
                                   calleeBudget(fr.bMaxSteps, fr.bBlocksVisited)))
    /\ UNCHANGED <<BoundedFlag, prog, budget, ret, pc, visits>>

\* a call the machine stack has no room for: the process dies
StackOverflow ==
    /\ Running /\ ret = <<>> /\ AtCall(Top) /\ ~Throws(Top) /\ Len(stack) >= MaxDepth
    /\ pc' = "crashed"
    /\ UNCHANGED <<BoundedFlag, prog, budget, stack, ret, visits>>

\* a value that is not bound is resolved: std::out_of_range is thrown and
\* ends the process (Interpreter.cpp:381)
OutOfRange ==
    /\ Running /\ ret = <<>> /\ Throws(Top)
    /\ pc' = "crashed"
    /\ UNCHANGED <<BoundedFlag, prog, budget, stack, ret, visits>>

\* logErrorData or logError is reached and ends the process.  Whether they
\* return is not in the source files: the step that goes on (Instruction,
\* BlockEnd) and this one are both taken
LogAbort ==
    /\ Running /\ ret = <<>> /\ ~Throws(Top) /\ Logs(Top)
    /\ pc' = "aborted"
    /\ UNCHANGED <<BoundedFlag, prog, budget, stack, ret, visits>>

\* a frame returns the record call to its caller
Return(call) ==
    /\ stack' = Pop
    /\ ret' = <<call>>
    /\ pc' = IF Len(stack) = 1 THEN "done" ELSE pc

\* the terminator, and interpretFunction's step after the block
\* (Interpreter.cpp:188-193, 127-140)
BlockEnd ==
    /\ Running /\ ret = <<>> /\ AtTerminator(Top) /\ ~Throws(Top)
    /\ LET fr == Top
           tu == interpretTerminator(CurrentBlock(fr).term, fr.state)
           update == BlockUpdate(recordedStep(fr), tu.nextBlock, fr.bCalls, FALSE,
                                 fr.bBlocksVisited)
           r == functionStep([fr EXCEPT !.state = tu.state], update)
       IN IF r.returned THEN Return(r.call)
          ELSE stack' = SetTop(r.frame) /\ UNCHANGED <<ret, pc>>
    /\ UNCHANGED <<BoundedFlag, prog, budget, visits>>

\* the callee has returned: the rest of the call instruction, and when the
\* block ends early interpretFunction's step after it
\* (Interpreter.cpp:174-182, 127-137)
CallReturn ==
    /\ Running /\ ret # <<>> /\ Top.at = "call"
    /\ LET fr == Top
           a == afterCall(fr, ret[1])
       IN IF a.exit
          THEN Return(functionStep([fr EXCEPT !.state = stateAtExit(fr, ret[1])],
                                   a.update).call)
          ELSE stack' = SetTop(a.frame) /\ ret' = <<>> /\ UNCHANGED pc
    /\ UNCHANGED <<BoundedFlag, prog, budget, visits>>

Next ==
    \/ Start
    \/ BlockEnter
    \/ Instruction
    \/ CallEnter
    \/ StackOverflow
    \/ OutOfRange
    \/ LogAbort
    \/ BlockEnd
    \/ CallReturn

Spec == Init /\ [][Next]_vars

\* the runs in unbounded mode
UnboundedInit == Init /\ ~BoundedFlag

\* the interpreter is one thread that runs until it returns or dies.  The
\* budget and the control flow of the modules do not depend on the width of
\* the integers, so the runs taken are those of unbounded mode.
FairSpec == UnboundedInit /\ [][Next]_vars /\ WF_vars(Next)

\* the record the top-level interpretFunction call returned
Result == ret[1]

Done == pc = "done"

(***************************************************************************)
(* The step budget.                                                        *)
(***************************************************************************)
\* C1: the blocksVisited of the record the top-level call returns is at
\* most the budget it was given.
C1_BlocksVisitedWithinBudget ==
    Done => ~U32Gt(Result.blocksVisited, budget)

\* C2: the record the top-level call returns has earlyExit exactly when the
\* call tree needs more block visits than the budget.  The run is
\* deterministic, so a truncated run is a prefix of the full one: the tree
\* needs more than the budget when a truncated run has already made more
\* visits than the budget, and needs what it made when it ran to its return.
C2_EarlyExitIffOverBudget ==
    Done => (Result.earlyExit <=> visits > budget)

\* a call with a nested call completes on exactly its budget
C2_Witness ==
    /\ Done /\ ~Result.earlyExit /\ visits = budget
    /\ \E i \in 1..Len(Result.steps) : Result.steps[i].calls # <<>>

\* C3: every top-level call eventually returns a record.
C3_Terminates == <>Done

(***************************************************************************)
(* The heap.                                                               *)
(***************************************************************************)
\* the frame stands before a load that directly follows a store to the
\* address it reads, of the same width
LoadAfterStore(fr) ==
    /\ AtInstr(fr) /\ fr.ip > 1
    /\ CurrentInstr(fr).op = "LoadInst"
    /\ CurrentBlock(fr).insts[fr.ip - 1].op = "StoreInst"
    /\ CurrentBlock(fr).insts[fr.ip - 1].bits = CurrentInstr(fr).bits
    /\ resolveValue(CurrentBlock(fr).insts[fr.ip - 1].ptr, fr.state)
           = resolveValue(CurrentInstr(fr).ptr, fr.state)

\* the value the store before the load wrote
StoredValue(fr) == resolveValue(CurrentBlock(fr).insts[fr.ip - 1].value, fr.state)

\* the load of a frame that stood at LoadAfterStore binds the stored value
LoadBindsStored ==
    stack'[Len(stack)].state.variables[CurrentInstr(Top).ref] = StoredValue(Top)

\* C4: in unbounded mode a load that directly follows a store to the same
\* address binds the value stored.
C4_UnboundedRoundTrip ==
    [][(~BoundedFlag /\ Running /\ ret = <<>> /\ LoadAfterStore(Top))
          => LoadBindsStored]_vars

\* the frame has just executed a load that directly follows a store
AfterLoadAfterStore(fr) ==
    /\ fr.at = "block" /\ fr.ip > 2
    /\ LoadAfterStore([fr EXCEPT !.ip = fr.ip - 1])

C4_Witness ==
    /\ ~BoundedFlag /\ Running /\ AfterLoadAfterStore(Top)
    /\ LET fr == [Top EXCEPT !.ip = Top.ip - 1]
       IN /\ fr.state.variables[CurrentInstr(fr).ref] = StoredValue(fr)
          /\ StoredValue(fr) = VarInt(IntegerMpz(-128))
          /\ resolveValue(CurrentInstr(fr).ptr, fr.state).val \in DOMAIN fr.entry.heap

\* C5: in bounded mode a load of w bits that directly follows a store of w
\* bits to the same address binds the value stored.
C5_BoundedRoundTrip ==
    [][(BoundedFlag /\ Running /\ ret = <<>> /\ LoadAfterStore(Top))
          => LoadBindsStored]_vars

\* the cells a load of bits at ptr reads
LoadKeys(ptr, bits) ==
    IF BoundedFlag
    THEN {IntegerAdd(asPointer(ptr), asPointer(IntegerMpz(i))) : i \in 0..(bits \div 8 - 1)}
    ELSE {asPointer(ptr)}

ZeroCell == IF BoundedFlag THEN IntegerAP(makeBoundedInt(8, 0)) ELSE IntegerMpz(0)

ZeroOf(bits) ==
    IF BoundedFlag THEN IntegerAP(makeBoundedInt(bits, 0)) ELSE IntegerMpz(0)

\* the frame stands before a load none of whose cells is in the heap
LoadOfAbsent(fr) ==
    /\ AtInstr(fr) /\ CurrentInstr(fr).op = "LoadInst"
    /\ LoadKeys(resolveValue(CurrentInstr(fr).ptr, fr.state).val, CurrentInstr(fr).bits)
           \cap DOMAIN fr.state.heap = {}

\* the frame stands before a load that directly follows the identical load
LoadRepeated(fr) ==
    /\ AtInstr(fr) /\ fr.ip > 1 /\ CurrentInstr(fr).op = "LoadInst"
    /\ CurrentBlock(fr).insts[fr.ip - 1].op = "LoadInst"
    /\ CurrentBlock(fr).insts[fr.ip - 1].ptr = CurrentInstr(fr).ptr
    /\ CurrentBlock(fr).insts[fr.ip - 1].bits = CurrentInstr(fr).bits

\* C6: a load none of whose cells is in the heap binds zero and adds
\* exactly those cells, holding zero, to the heap; the identical load
\* repeated binds the value of the first and leaves the heap as it is.
C6_LoadZeroFills ==
    [][(Running /\ ret = <<>> /\ AtInstr(Top) /\ CurrentInstr(Top).op = "LoadInst"
           /\ ~Throws(Top))
          => LET fr   == Top
                 in   == CurrentInstr(fr)
                 keys == LoadKeys(resolveValue(in.ptr, fr.state).val, in.bits)
                 st   == stack'[Len(stack)].state
             IN /\ LoadOfAbsent(fr) =>
                      /\ st.variables[in.ref] = VarInt(ZeroOf(in.bits))
                      /\ st.heap = [k \in DOMAIN fr.state.heap \cup keys |->
                                       IF k \in keys THEN ZeroCell ELSE fr.state.heap[k]]
                /\ LoadRepeated(fr) =>
                      /\ st.variables[in.ref]
                            = fr.state.variables[CurrentBlock(fr).insts[fr.ip - 1].ref]
                      /\ st.heap = fr.state.heap]_vars

\* two identical loads of a cell that was absent have run: both bound zero
\* and the cell is there, holding zero
C6_Witness ==
    /\ Running /\ Top.at = "block" /\ Top.ip > 2
    /\ LET fr == [Top EXCEPT !.ip = Top.ip - 1]
           in == CurrentInstr(fr)
           keys == LoadKeys(resolveValue(in.ptr, fr.state).val, in.bits)
       IN /\ LoadRepeated(fr)
          /\ keys \cap DOMAIN fr.entry.heap = {}
          /\ \A k \in keys : k \in DOMAIN fr.state.heap /\ fr.state.heap[k] = ZeroCell
          /\ fr.state.variables[in.ref] = VarInt(ZeroOf(in.bits))
          /\ fr.state.variables[CurrentBlock(fr).insts[fr.ip - 1].ref]
                = VarInt(ZeroOf(in.bits))

(***************************************************************************)
(* The trace.                                                              *)
(***************************************************************************)
\* the steps a frame has recorded, and the step of the block it is in,
\* hold the states right after the PHI nodes of their blocks
StepsArePostPhi(fr) ==
    /\ \A i \in 1..Len(fr.steps) : fr.steps[i].state = fr.postPhi[i]
    /\ fr.at # "fun" => fr.bStep = fr.postPhi[Len(fr.postPhi)]

\* C7: the state of every block step is the state right after the PHI nodes
\* of its block, whatever ran in the block afterwards: in every frame, and
\* in every record a frame returns.
C7_StepIsPostPhiState ==
    /\ [](\A d \in 1..Len(stack) : StepsArePostPhi(stack[d]))
    /\ [][(ret' # <<>> /\ ret' # ret)
             => \A i \in 1..Len(ret'[1].steps) :
                   ret'[1].steps[i].state = Top.postPhi[i]]_vars

\* a block with PHI nodes whose later instructions have changed the state
C7_Witness ==
    /\ Running /\ Top.at = "block"
    /\ CurrentBlock(Top).phis # <<>>
    /\ Top.prevBlock # NoBlock
    /\ Top.steps # <<>>
    /\ Top.state # Top.bStep
    /\ CurrentBlock(Top).phis[1].ref \in DOMAIN Top.bStep.variables

(***************************************************************************)
(* The codec.                                                              *)
(***************************************************************************)
\* a state with every variable under its name
namedState(state) ==
    State([n \in {valueName(k) : k \in DOMAIN state.variables} |->
              state.variables[CHOOSE k \in DOMAIN state.variables : valueName(k) = n]],
          state.heap)

RECURSIVE namedCall(_)
\* a record with every variable of every state under its name
namedCall(call) ==
    FastCall(call.functionName, namedState(call.entryState),
             namedState(call.returnState),
             [i \in 1..Len(call.steps) |->
                 BlockStep(call.steps[i].blockName, namedState(call.steps[i].state),
                           [j \in 1..Len(call.steps[i].calls) |->
                               namedCall(call.steps[i].calls[j])])],
             call.earlyExit, call.blocksVisited)

\* C8: a record a call returns, encoded with toCBOR and decoded with
\* cborToCall, is the record again in every field, its variables under their
\* names.
C8_CodecRoundTrip ==
    ret # <<>> => cborToCall(toCBOR(ret[1])) = namedCall(ret[1])

\* the round trip of the records of unbounded mode
C8_UnboundedRoundTrip ==
    (~BoundedFlag /\ ret # <<>>) => cborToCall(toCBOR(ret[1])) = namedCall(ret[1])

\* the case a switch must select: the first one whose constant is the
\* scrutinee's value n, or the default
FirstMatch(instr, n) ==
    LET M == {i \in 1..Len(instr.cases) : instr.cases[i].value = n}
    IN IF M = {} THEN instr.default
       ELSE instr.cases[CHOOSE i \in M : \A j \in M : i <= j].succ

\* the number an Integer stands for
NumberOf(i) == IF i.type = "Bounded" THEN APsigned(i.bounded) ELSE i.unbounded

\* C9: a switch goes to the successor of the first case, in declared order,
\* whose constant equals the scrutinee, and to the default when none does.
C9_SwitchFirstMatch ==
    [][(Running /\ ret = <<>> /\ AtTerminator(Top)
           /\ CurrentBlock(Top).term.op = "SwitchInst"
           /\ pc' = "run" /\ Len(stack') = Len(stack))
          => stack'[Len(stack)].currentBlock
                = FirstMatch(CurrentBlock(Top).term,
                             NumberOf(resolveValue(CurrentBlock(Top).term.cond,
                                                   Top.state).val))]_vars

\* a switch with a duplicated constant has taken the first of the two cases
C9_Witness ==
    /\ Running /\ Top.at = "fun" /\ Top.prevBlock # NoBlock
    /\ LET t == Fun(Top.fun).blocks[Top.prevBlock].term
       IN /\ t.op = "SwitchInst"
          /\ \E i, j \in 1..Len(t.cases) :
                /\ i < j /\ t.cases[i].value = t.cases[j].value
                /\ t.cases[i].succ # t.cases[j].succ
                /\ Top.currentBlock = t.cases[i].succ

\* C10: a frame that is handed a truncated record by its callee returns at
\* once, and the record it returns is truncated too: so is every record up
\* to the one of the top-level call.
C10_EarlyExitPropagates ==
    [][(Running /\ ret # <<>> /\ ret[1].earlyExit)
          => (ret' # <<>> /\ ret'[1].earlyExit)]_vars

\* the top-level record is truncated, and part of its count is a callee's
C10_Witness ==
    /\ Done /\ Result.earlyExit
    /\ Result.blocksVisited > Len(Result.steps) + 1
    /\ \A i \in 1..Len(Result.steps) : Result.steps[i].calls = <<>>

(***************************************************************************)
(* Nested calls.                                                           *)
(***************************************************************************)
\* the calls of the block a frame is in, or was in when it returned the
\* record r
CallsAfter(r) ==
    IF r = <<>> THEN stack'[Len(stack)].bCalls
    ELSE r[1].steps[Len(r[1].steps)].calls

\* C11: the record of every callee that was interpreted is appended to the
\* calls of the block step of its call instruction, in call order, truncated
\* or not.
C11_CalleeRecordAppended ==
    [][(Running /\ ret # <<>>) => CallsAfter(ret') = Append(Top.bCalls, ret[1])]_vars

\* the heap of the caller after the call: of its frame, or of the record it
\* returned
HeapAfter(r) ==
    IF r = <<>> THEN stack'[Len(stack)].state.heap ELSE r[1].returnState.heap

\* C12: after a callee has returned a record that is not truncated the
\* caller's heap is the heap of the callee at its return.
C12_CalleeHeapVisible ==
    [][(Running /\ ret # <<>> /\ ~ret[1].earlyExit)
          => HeapAfter(ret') = ret[1].returnState.heap]_vars

\* the addresses of h1 are addresses of h2
HeapGrows(h1, h2) == DOMAIN h1 \subseteq DOMAIN h2

\* the heaps of a record, from its entry state over the snapshots of its
\* steps to its return state, only grow
RecordGrows(call) ==
    LET hs == <<call.entryState.heap>>
              \o [i \in 1..Len(call.steps) |-> call.steps[i].state.heap]
              \o <<call.returnState.heap>>
    IN \A i \in 1..(Len(hs) - 1) : HeapGrows(hs[i], hs[i + 1])

\* C13: the heap of every frame only gains addresses from one step to the
\* next, over instructions and over nested calls, returned or truncated;
\* so do the snapshots of every record returned.
C13_HeapOnlyGrows ==
    /\ [][\A d \in 1..Len(stack) :
             d <= Len(stack') => HeapGrows(stack[d].state.heap, stack'[d].state.heap)]_vars
    /\ [](ret # <<>> => RecordGrows(ret[1]))

\* a callee has returned and its caller has gained an address from it
C13_Witness ==
    /\ Running /\ ret = <<>> /\ Top.at = "block" /\ Top.bCalls # <<>>
    /\ DOMAIN Top.state.heap # DOMAIN Top.bCalls[1].entryState.heap
    /\ DOMAIN Top.state.heap = DOMAIN Top.bCalls[1].returnState.heap

\* C19: a call runs the function the call names as its callee, from its
\* entry block, on an environment that binds exactly the callee's formals,
\* the i-th to the value of the i-th actual argument.
C19_CallRunsCallee ==
    [][(Running /\ ret = <<>> /\ AtCall(Top) /\ Len(stack') > Len(stack))
          => LET call   == CurrentInstr(Top)
                 callee == Fun(call.callee)
                 fr     == stack'[Len(stack')]
             IN /\ fr.fun = call.callee
                /\ fr.currentBlock = callee.entry
                /\ DOMAIN fr.state.variables
                      = {callee.args[i] : i \in 1..Len(callee.args)}
                /\ \A i \in 1..Len(callee.args) :
                      fr.state.variables[callee.args[i]]
                         = resolveValue(call.args[i], Top.state)]_vars

\* C20: the budget a block hands to a callee is at most the budget the block
\* was given, as unsigned 32-bit numbers.
C20_CalleeBudgetWithinBlocks ==
    [][(Running /\ ret = <<>> /\ AtCall(Top) /\ Len(stack') > Len(stack))
          => ~U32Gt(stack'[Len(stack')].maxSteps, Top.bMaxSteps)]_vars

(***************************************************************************)
(* Constructs outside the supported set and casts                          *)
(***************************************************************************)
\* the cast kinds interpretInstruction has a branch for
CastKinds == {"ZExt", "SExt", "PtrToInt", "IntToPtr"}

\* the next step of the frame executes a construct outside the supported set
UnsupportedAt(fr) ==
    \/ Logs(fr)
    \/ /\ AtInstr(fr) /\ CurrentInstr(fr).op = "CastInst"
       /\ ~(CurrentInstr(fr).srcBits = 1 /\ CurrentInstr(fr).bits > 1)
       /\ CurrentInstr(fr).kind \notin CastKinds

\* C14: executing a construct outside the supported set (instruction kind,
\* comparison predicate, 1-bit operation other than OR, integer opcode,
\* terminator, cast kind) aborts the whole interpretation at once: the only
\* step from such a position is the abort, so no binding is made and no
\* record is returned.
C14_UnsupportedAborts ==
    [][(Running /\ ret = <<>> /\ UnsupportedAt(Top)) => pc' = "aborted"]_vars

\* the top frame executes a cast of one of the kinds
CastStep(kinds) ==
    /\ Running /\ ret = <<>> /\ AtInstr(Top) /\ ~Throws(Top)
    /\ CurrentInstr(Top).op = "CastInst"
    /\ CurrentInstr(Top).kind \in kinds
    /\ Len(stack') = Len(stack)
    /\ stack'[Len(stack')].ip = Top.ip + 1

\* C17: an integer-to-pointer cast binds the cast's own reference to the
\* operand coerced to 64 bits.
C17_IntToPtrBindsResult ==
    [][CastStep({"IntToPtr"}) =>
          LET cast == CurrentInstr(Top)
              after == stack'[Len(stack')].state.variables
          IN /\ cast.ref \in DOMAIN after
             /\ after[cast.ref] =
                   VarInt(IntegerZextOrTrunc(resolveValue(cast.a, Top.state).val, 64))]_vars

\* the value a width-changing cast of an integer is to bind
CastResult(cast, state) ==
    LET operand == resolveValue(cast.a, state).val
    IN CASE cast.kind = "ZExt"  -> VarInt(IntegerZext(operand, cast.bits))
         [] cast.kind = "SExt"  -> VarInt(IntegerSext(operand, cast.bits))
         [] cast.kind = "Trunc" -> VarInt(IntegerZextOrTrunc(operand, cast.bits))

\* C18: after a zero-extend, sign-extend or truncate cast executes, the
\* cast's reference is bound, and for an integer operand it is bound to the
\* operand converted to the target width.
C18_WidthCastsBind ==
    [][CastStep({"ZExt", "SExt", "Trunc"}) =>
          LET cast == CurrentInstr(Top)
              after == stack'[Len(stack')].state.variables
          IN /\ cast.ref \in DOMAIN after
             /\ cast.srcBits > 1 => after[cast.ref] = CastResult(cast, Top.state)]_vars

(***************************************************************************)
(* The integer mode of a run                                               *)
(***************************************************************************)
\* the tag of the integers of the run's mode
ActiveMode == IF BoundedFlag THEN "Bounded" ELSE "Unbounded"

\* the integers bound in the environment and the addresses and contents of
\* the heap of a state are of the active mode
StateInMode(state) ==
    /\ \A x \in DOMAIN state.variables :
          state.variables[x].type = "Int" => state.variables[x].val.type = ActiveMode
    /\ \A a \in DOMAIN state.heap :
          a.type = ActiveMode /\ state.heap[a].type = ActiveMode

\* the integers the next step of the frame resolves are of the active mode
ResolvedInMode(fr) ==
    (AtInstr(fr) /\ ~Throws(fr)) =>
        \A v \in Uses(CurrentInstr(fr), fr.state) :
            resolveValue(v, fr.state).type = "Int"
                => resolveValue(v, fr.state).val.type = ActiveMode

\* C16: within one run every integer that resolveValue produces, that is
\* bound in an environment or that is a heap address is of the run's active
\* mode, the null-pointer constant included.
C16_OneModePerRun ==
    \A i \in 1..Len(stack) :
        StateInMode(stack[i].state) /\ ResolvedInMode(stack[i])

(***************************************************************************)
(* Malformed documents                                                     *)
(***************************************************************************)
\* a step map that has lost its last pair
WithoutLastPair(item) == cbor_map(SubSeq(item.pairs, 1, Len(item.pairs) - 1))

\* a state document whose first variable has an unsigned integer for its
\* value: neither a boolean nor a text string
WithNumberForVariable(item) ==
    LET cborVariables == item.pairs[1].value
        bad == cbor_map([cborVariables.pairs EXCEPT
                            ![1] = cbor_pair(@.key, cbor_build_uint32(0))])
    IN cbor_map(<<cbor_pair(item.pairs[1].key, bad), item.pairs[2]>>)

\* the values cborToState gives the variables of a state document
DecodedValues(item) ==
    LET variables == cborToState(item).variables
    IN {variables[n] : n \in DOMAIN variables}

\* C15: decoding a malformed document does not yield a null that the
\* decoder passes on: neither for a step map of 5 or of 2 pairs, nor for a
\* variable whose value is neither a boolean nor a text string.
C15_MalformedAborts ==
    Done =>
        /\ cborToStep(WithoutLastPair(toCBOR(Result))) # NullStep
        /\ Result.steps # <<>> =>
               cborToStep(WithoutLastPair(toCBOR(Result).pairs[4].value.items[1]))
                   # NullStep
        /\ DOMAIN Result.entryState.variables # {} =>
               NullVal \notin DecodedValues(
                   WithNumberForVariable(stateToCBOR(Result.entryState)))

(***************************************************************************)
(* The caller's frame across a call                                        *)
(***************************************************************************)
\* the callee of the top frame has returned c and the block ends early
TruncatedReturn ==
    /\ Running /\ ret # <<>> /\ Top.at = "call"
    /\ blockExits(U32Add(Top.bBlocksVisited, ret[1].blocksVisited), Top.bMaxSteps,
                  ret[1])

\* C21: when a nested call is truncated the enclosing block stops at once:
\* the caller's function returns on that step, with a truncated record
\* whose last step is the block of the call and whose return state is the
\* caller's state as it was just before the call instruction; the call's
\* reference is bound only if it was, and no heap write of the callee is in.
C21_TruncatedCallLeavesCaller ==
    [][TruncatedReturn =>
          /\ stack' = Pop
          /\ ret' # <<>>
          /\ ret'[1].earlyExit
          /\ ret'[1].returnState = Top.state
          /\ Len(ret'[1].steps) = Len(Top.steps) + 1
          /\ ret'[1].steps[Len(ret'[1].steps)].blockName = Top.currentBlock]_vars

\* f(1, p) of PHeap run with budget 3 has returned: its callee f(0, p) was
\* cut after its store to p, and the caller's record is truncated in the
\* block of the call, with p's cell absent and the call's reference unbound
C21_Witness ==
    /\ Done /\ prog = 11 /\ budget = 3
    /\ Result.earlyExit
    /\ Result.steps[Len(Result.steps)].blockName = "rec"
    /\ "m" \in DOMAIN Result.returnState.variables
    /\ "r" \notin DOMAIN Result.returnState.variables
    /\ Result.returnState.heap = Result.entryState.heap

\* the callee of the top frame has returned c and the block goes on
NormalReturn ==
    /\ Running /\ ret # <<>> /\ Top.at = "call"
    /\ ~blockExits(U32Add(Top.bBlocksVisited, ret[1].blocksVisited), Top.bMaxSteps,
                   ret[1])

\* C22: a nested call that returns normally changes, in the caller's
\* bindings, only the binding of the call's own reference, which becomes the
\* callee's return value; every other binding of the caller is as it was
\* and no other key appears.
C22_CallBindsOnlyItsReference ==
    [][NormalReturn =>
          LET before == Top.state.variables
              after  == stack'[Len(stack)].state.variables
              call   == CurrentInstr(Top)
          IN /\ Len(stack') = Len(stack)
             /\ DOMAIN after = DOMAIN before \cup {call.ref}
             /\ \A x \in DOMAIN before \ {call.ref} : after[x] = before[x]
             /\ ReturnName \in DOMAIN ret[1].returnState.variables
             /\ after[call.ref] = ret[1].returnState.variables[ReturnName]]_vars

\* f(1, p) of PHeap stands after its call of f(0, p): r holds the callee's
\* return value, the caller's c is still false while the callee's was true,
\* and the caller has neither the callee's sentinel nor other new keys
C22_Witness ==
    /\ Running /\ ret = <<>> /\ prog = 11 /\ Top.at = "block"
    /\ Top.currentBlock = "rec" /\ Top.ip = 3 /\ Len(Top.bCalls) = 1
    /\ Top.state.variables["c"] = VarBool(FALSE)
    /\ Top.bCalls[1].returnState.variables["c"] = VarBool(TRUE)
    /\ Top.state.variables["r"] = Top.bCalls[1].returnState.variables[ReturnName]
    /\ DOMAIN Top.state.variables = {"n", "p", "c", "m", "r"}

(***************************************************************************)
(* The states of a record                                                  *)
(***************************************************************************)
\* the formal arguments of a function
Formals(fun) == {Fun(fun).args[i] : i \in 1..Len(Fun(fun).args)}

\* C23: the return state of every record holds bindings of the function's
\* arguments and of the return sentinel only (and the heap): no result of an
\* instruction of the call is in it.
C23_ReturnStateIsArgsAndReturn ==
    ret # <<>> =>
        DOMAIN ret[1].returnState.variables
            \subseteq Formals(ret[1].functionName) \cup {ReturnName}

(***************************************************************************)
(* PHI nodes                                                               *)
(***************************************************************************)
\* C24: every PHI node at the top of a block receives its incoming value
\* as it was bound when the block was entered, also when that value is
\* another PHI node of the same block.
C24_PhisReadEntryState ==
    [][(Running /\ ret = <<>> /\ Top.at = "fun" /\ ~Throws(Top)) =>
          \A i \in 1..Len(CurrentBlock(Top).phis) :
              LET phi == CurrentBlock(Top).phis[i]
              IN stack'[Len(stack)].state.variables[phi.ref]
                    = resolveValue(phi.incoming[Top.prevBlock], Top.state)]_vars

(***************************************************************************)
(* The count of a record                                                   *)
(***************************************************************************)
RECURSIVE SumOver(_)
\* the sum of a sequence of numbers
SumOver(ns) == IF ns = <<>> THEN 0 ELSE Head(ns) + SumOver(Tail(ns))

RECURSIVE BlockSteps(_)
\* the block steps of the trace tree of a record: its own and those of
\* every record in their calls
BlockSteps(call) ==
    Len(call.steps)
    + SumOver([i \in 1..Len(call.steps) |->
                  SumOver([j \in 1..Len(call.steps[i].calls) |->
                              BlockSteps(call.steps[i].calls[j])])])

\* C25: the blocksVisited of every record, truncated or not, is the number
\* of block steps of its trace tree.
C25_BlocksVisitedCountsSteps ==
    ret # <<>> => ret[1].blocksVisited = BlockSteps(ret[1])

(***************************************************************************)
(* The frame of a store                                                    *)
(***************************************************************************)
\* the byte cells of a bits-wide value at addr
StoreCells(addr, bits) ==
    {IntegerAdd(addr, IntegerAP(APInt(8, i))) : i \in 0..((bits \div 8) - 1)}

\* C26: in bounded mode a store of a w-bit value at address a changes only
\* the w/8 cells a .. a + w/8 - 1: every other cell keeps its value or stays
\* absent.
C26_BoundedStoreFrame ==
    [][(BoundedFlag /\ Running /\ ret = <<>> /\ AtInstr(Top) /\ ~Throws(Top)
           /\ CurrentInstr(Top).op = "StoreInst") =>
          LET store  == CurrentInstr(Top)
              addr   == resolveValue(store.ptr, Top.state).val
              cells  == StoreCells(addr, store.bits)
              before == Top.state.heap
              after  == stack'[Len(stack)].state.heap
          IN \A k \in (DOMAIN before \cup DOMAIN after) \ cells :
                 /\ k \in DOMAIN before
                 /\ k \in DOMAIN after
                 /\ after[k] = before[k]]_vars

(***************************************************************************)
(* The return sentinel                                                     *)
(***************************************************************************)
\* the binding of the return sentinel in a state, if any
SentinelOf(state) ==
    IF ReturnName \in DOMAIN state.variables
    THEN <<state.variables[ReturnName]>> ELSE <<>>

\* the top frame stands before a return terminator
AtReturn(fr) == AtTerminator(fr) /\ CurrentBlock(fr).term.op = "ReturnInst"

\* the state of the top frame after a step: of the frame, or of the record
\* it returned
StateAfter ==
    IF Len(stack') >= Len(stack) THEN stack'[Len(stack)].state
    ELSE ret'[1].returnState

\* C27: only a return terminator writes the binding of the return
\* sentinel: a step of a frame over PHI nodes, over an instruction that is
\* not a terminator (a call and its return included) or over a branch or
\* switch leaves the frame's sentinel binding as it was.
C27_OnlyReturnWritesSentinel ==
    [][(Running /\ ~(ret = <<>> /\ AtReturn(Top)))
          => SentinelOf(StateAfter) = SentinelOf(Top.state)]_vars

\* C28: in every record the return sentinel is bound in the return state
\* exactly when earlyExit is false.
C28_SentinelIffCompleted ==
    ret # <<>> =>
        ((ReturnName \in DOMAIN ret[1].returnState.variables) <=> ~ret[1].earlyExit)

====
